---- MODULE Spec2Model ----
(***************************************************************************)
(* Alchemynger: the session lifecycle and the statement-execution contract *)
(* of SyncManager and AsyncManager (src/alchemynger/manager.py).           *)
(*                                                                         *)
(* The manager's own state is path, engine and session_maker.  A call of   *)
(* get_session or execute runs in a call slot and walks through the lines  *)
(* of the context manager; the database behind the Session is the test     *)
(* suite's table user(id INTEGER PRIMARY KEY, name).                       *)
(***************************************************************************)
EXTENDS Integers, Sequences, FiniteSets, TLC

\* ------------------------------------------------------------------ bounds
\* Calls that can be in flight at once (two coroutines on one AsyncManager).
MaxCalls == 2
\* Sessions one run creates in total (each call creates at most one).
MaxSessions == 3
\* Commits a caller issues inside one get_session() block.
MaxBlockCommits == 2

Calls == 1..MaxCalls

\* ------------------------------------------------------------- the table
\* A row of table user is <<id, name>>; a table is the sequence of its rows
\* in the order an unordered SELECT returns them.
Row1 == <<1, "Name1">>
Row2 == <<2, "Name2">>
RowName == <<1, "Name">>
EmptyTable == <<>>

RowIds(table) == {table[i][1] : i \in 1..Len(table)}

\* statement shapes ----------------------------------------------------
\* op: select | insert | update | delete
\* target: "entity" (User), "cols" (User.id, User.name), "id" (User.id)
\* rows: the VALUES of an insert; wcol/wval: the WHERE clause;
\* setname: the new name of an update; returning: a RETURNING clause.
Stmt(op, target, rows, wcol, wval, setname, returning) ==
    [op |-> op, target |-> target, rows |-> rows, wcol |-> wcol,
     wval |-> wval, setname |-> setname, returning |-> returning]

NoStmt == Stmt("none", "entity", <<>>, "none", <<>>, "", FALSE)

SelectEntity == Stmt("select", "entity", <<>>, "none", <<>>, "", FALSE)
SelectCols == Stmt("select", "cols", <<>>, "none", <<>>, "", FALSE)
SelectNewName == Stmt("select", "entity", <<>>, "name", <<"NewName">>, "", FALSE)
InsertBoth == Stmt("insert", "entity", <<Row1, Row2>>, "none", <<>>, "", FALSE)
InsertBothDesc == Stmt("insert", "entity", <<Row2, Row1>>, "none", <<>>, "", FALSE)
InsertReturning == Stmt("insert", "id", <<Row1>>, "none", <<>>, "", TRUE)
UpdateId1 == Stmt("update", "entity", <<>>, "id", <<1>>, "NewName", FALSE)
DeleteName2 == Stmt("delete", "entity", <<>>, "name", <<"Name2">>, "", FALSE)
DeleteId1 == Stmt("delete", "entity", <<>>, "id", <<1>>, "", FALSE)
DeleteAll == Stmt("delete", "entity", <<>>, "none", <<>>, "", FALSE)

\* The statements the tests pass to execute.
Statements ==
    {SelectEntity, SelectCols, SelectNewName, InsertBoth, InsertBothDesc,
     InsertReturning, UpdateId1, DeleteName2, DeleteAll}

\* The statements the tests issue on the Session inside a get_session block.
BlockStatements == {SelectEntity, DeleteId1}

IsWrite(stmt) == stmt.op \in {"insert", "update", "delete"}

\* A statement has a readable result set when it is a select or carries
\* RETURNING; the result of any other statement is closed at once.
ReturnsRows(stmt) == stmt.op = "select" \/ stmt.returning

Matches(stmt, row) ==
    CASE stmt.wcol = "id" -> row[1] = stmt.wval[1]
      [] stmt.wcol = "name" -> row[2] = stmt.wval[1]
      [] OTHER -> TRUE

RECURSIVE Filter(_, _)
Filter(stmt, table) ==
    IF table = <<>> THEN <<>>
    ELSE IF Matches(stmt, Head(table))
         THEN <<Head(table)>> \o Filter(stmt, Tail(table))
         ELSE Filter(stmt, Tail(table))

\* Rows the statement leaves out (delete) or rewrites (update).
RECURSIVE Remove(_, _)
Remove(stmt, table) ==
    IF table = <<>> THEN <<>>
    ELSE IF Matches(stmt, Head(table))
         THEN Remove(stmt, Tail(table))
         ELSE <<Head(table)>> \o Remove(stmt, Tail(table))

Rewrite(stmt, table) ==
    [i \in 1..Len(table) |->
        IF Matches(stmt, table[i]) THEN <<table[i][1], stmt.setname>> ELSE table[i]]

\* Where a new row lands in the scan order: at the end when the storage keeps
\* insertion order, before the first row of a larger id when the table is
\* scanned in primary-key order (the tests' SQLite table, PRIMARY KEY (id)).
RECURSIVE PlaceRow(_, _, _)
PlaceRow(order, row, table) ==
    IF table = <<>> THEN <<row>>
    ELSE IF order = "rowid" /\ row[1] < Head(table)[1]
         THEN <<row>> \o table
         ELSE <<Head(table)>> \o PlaceRow(order, row, Tail(table))

RECURSIVE PlaceRows(_, _, _)
PlaceRows(order, rows, table) ==
    IF rows = <<>> THEN table
    ELSE PlaceRows(order, Tail(rows), PlaceRow(order, Head(rows), table))

\* An insert violates the primary key when an id is already in the table or
\* occurs twice in the VALUES.
InsertConflicts(rows, table) ==
    \/ \E i \in 1..Len(rows) : rows[i][1] \in RowIds(table)
    \/ \E i, j \in 1..Len(rows) : i # j /\ rows[i][1] = rows[j][1]

\* The table a write statement leaves.
ApplyWrite(order, stmt, table) ==
    CASE stmt.op = "insert" -> PlaceRows(order, stmt.rows, table)
      [] stmt.op = "update" -> Rewrite(stmt, table)
      [] stmt.op = "delete" -> Remove(stmt, table)
      [] OTHER -> table

\* The rows a statement's result set holds, read on `table` (the table the
\* statement left, for RETURNING).
ResultRows(stmt, table) ==
    CASE stmt.op = "select" -> Filter(stmt, table)
      [] stmt.returning -> stmt.rows
      [] OTHER -> <<>>

\* --------------------------------------------------- result normalization
Item(shape, vals) == [shape |-> shape, vals |-> vals]

NoRaw == [target |-> "entity", rows |-> <<>>, returns_rows |-> FALSE]

\* result.scalars().all(): the first column of every row, or the entity.
ScalarsAll(raw) ==
    [i \in 1..Len(raw.rows) |->
        IF raw.target = "entity" THEN Item("entity", raw.rows[i])
        ELSE Item("scalar", <<raw.rows[i][1]>>)]

\* result.all(): the full rows.
RowsAll(raw) ==
    [i \in 1..Len(raw.rows) |->
        CASE raw.target = "entity" -> Item("row", <<raw.rows[i]>>)
          [] raw.target = "cols" -> Item("row", raw.rows[i])
          [] OTHER -> Item("row", <<raw.rows[i][1]>>)]

Unset == [tag |-> "unset", items |-> <<>>]
NoneResult == [tag |-> "None", items |-> <<>>]
SeqResult(items) == [tag |-> "Seq", items |-> items]

Outcome(error, value) == [error |-> error, value |-> value]

\* manager.py 222: result.scalars().all() if scalars else result.all(); a
\* result that returns no rows raises ResourceClosedError there, and one whose
\* connection is lost (target "lost") raises the driver's error.
MaterializeRaw(raw, scalars) ==
    IF raw.target = "lost" THEN Outcome("DBAPIError", Unset)
    ELSE IF ~raw.returns_rows THEN Outcome("ResourceClosedError", Unset)
    ELSE Outcome("none", SeqResult(IF scalars THEN ScalarsAll(raw) ELSE RowsAll(raw)))

\* Mutant: scalars is ignored, the first column is always taken.
NormalizeScalarsAlways(raw, scalars) ==
    LET got == MaterializeRaw(raw, TRUE)
    IN IF got.error = "ResourceClosedError" THEN Outcome("none", NoneResult) ELSE got

\* Mutant: the except clause catches every exception, not ResourceClosedError
\* alone.
NormalizeCatchesAll(raw, scalars) ==
    LET got == MaterializeRaw(raw, scalars)
    IN IF got.error # "none" THEN Outcome("none", NoneResult) ELSE got

\* Mutant: the ResourceClosedError is not caught.
NormalizeUncaught(raw, scalars) == MaterializeRaw(raw, scalars)

\* manager.py 221-224: the try around the materialization; ResourceClosedError
\* is caught and the result becomes None.
Normalize(raw, scalars) ==
    LET got == MaterializeRaw(raw, scalars)
    IN IF got.error = "ResourceClosedError" THEN Outcome("none", NoneResult) ELSE got

\* ------------------------------------------------------------ the manager
SyncUrl == "sqlite:///testS.db"
AsyncUrl == "sqlite+aiosqlite:///testA.db"
BadUrl == "testS.db"
\* The connection strings tried on a manager of each kind.
Paths(kind) == IF kind = "sync" THEN {SyncUrl, BadUrl} ELSE {AsyncUrl, SyncUrl, BadUrl}

NoEngine == [kind |-> "none", url |-> ""]
NoMaker == [bind |-> NoEngine, autoflush |-> FALSE, set |-> FALSE]

\* create_engine / create_async_engine: a string that is no URL raises
\* ArgumentError; create_async_engine refuses a URL whose driver is not async.
EngineFabric(kind, url) ==
    CASE url = BadUrl -> Outcome("ArgumentError", NoEngine)
      [] kind = "async" /\ url = SyncUrl -> Outcome("InvalidRequestError", NoEngine)
      [] OTHER -> Outcome("none", [kind |-> kind, url |-> url])

\* Mutant: the library's ArgumentError leaves _engine_init as it is.
EngineErrorRaw(raised) == raised

\* Mutant: the exception names no path.
MessageOfNothing(error, url) == ""

\* The message of BadPathError (109) and of RuntimeError (203-205) holds
\* self._path.
MessageOf(error, url) ==
    IF error \in {"BadPathError", "RuntimeError"} THEN url ELSE ""

\* manager.py 106-109: except ArgumentError -> raise BadPathError; any other
\* exception of the fabric passes through.
EngineError(raised) == IF raised = "ArgumentError" THEN "BadPathError" ELSE raised

\* -------------------------------------------------------------- Sessions
NewSession ==
    [state |-> "open", dirty |-> FALSE, txn |-> EmptyTable, new |-> <<>>,
     events |-> <<>>, commits |-> 0]

Log(s, event) == [s EXCEPT !.events = Append(@, event)]

\* What the caller wrote: the statement and the keyword arguments it gave (<<>>
\* is an argument left out, <<v>> one given as v; extra names a keyword that is
\* none of execute's).
Asked(stmt, commit, scalars, extra) ==
    [stmt |-> stmt, scalars |-> scalars, commit |-> commit, extra |-> extra]

NoAsk == Asked(NoStmt, <<>>, <<>>, <<>>)

\* The first exception of a call: the line that raised it, and what it was.
NoFailure == [error |-> "none", at |-> "none"]

IdleCall ==
    [stmt |-> NoStmt, raw |-> NoRaw, error |-> "none", scalars |-> FALSE,
     kind |-> "none", commit |-> FALSE, pc |-> "idle", session |-> 0,
     result |-> Unset, returned |-> Unset, message |-> "", recent |-> <<>>,
     script |-> 0, dbBefore |-> EmptyTable, overlapped |-> FALSE, via |-> "none",
     asked |-> NoAsk, cancels |-> 0, failed |-> NoFailure]

NoLast == [stmt |-> NoStmt, session |-> 0, dbBefore |-> EmptyTable, valid |-> FALSE]

\* The table of the tests' model class User (conftest.py 43-47), and the
\* table of a second model class declared on the same Base.
UserTable == "user"

PostTable == "post"

\* How create_all ended: its arguments (tables is <<>> for None, or holds the
\* sequence given), the tables it was to materialize, what it raised, the
\* tables it created, and the tables the database held before.
Ddl(tables, checkfirst, wanted, error, created, before) ==
    [error |-> error, tables |-> tables, checkfirst |-> checkfirst,
     wanted |-> wanted, created |-> created, before |-> before, ran |-> TRUE]

NoDdl ==
    [error |-> "none", tables |-> <<>>, checkfirst |-> TRUE, wanted |-> <<>>,
     created |-> <<>>, before |-> <<>>, ran |-> FALSE]

\* What the caller writes between the brackets of manager[...]: one object,
\* or a sequence (tuple or list) of objects.
Obj(name) == [items |-> <<>>, name |-> name, seq |-> FALSE]

Tuple(items) == [items |-> items, name |-> "", seq |-> TRUE]

NoKey == Obj("")

\* A statement under construction: what it reads or writes, its WHERE
\* criteria and its RETURNING columns; or the exception its construction
\* raised.
Statement(op, entities, where, returning) ==
    [op |-> op, returning |-> returning, error |-> "none", entities |-> entities,
     where |-> where]

Failure(error) ==
    [op |-> "none", returning |-> <<>>, error |-> error, entities |-> <<>>,
     where |-> <<>>]

NoStatement == Failure("none")

NoBuilt ==
    [op |-> "none", made |-> FALSE, key |-> NoKey, chain |-> <<>>,
     selector |-> NoStatement, direct |-> NoStatement]

VARIABLES
    variant,        \* "sync" (SyncManager) or "async" (AsyncManager)
    order,          \* scan order of the database: "insertion" or "rowid"
    path,           \* self._path
    constructed,    \* "no": __init__ not run; "ok"; "failed": __init__ raised
    init_error,     \* what __init__ raised, and its message
    engine,         \* self.engine
    session_maker,  \* self.session_maker (NoMaker is None)
    db,             \* the committed rows of table user
    sessions,       \* every Session created so far, by number
    calls,          \* the calls in flight, by slot
    tasks,          \* how many callers use the manager at once
    last,           \* the committed write that returned last, see Return
    metadata,       \* the tables registered on self.Base.metadata, in order
    catalog,        \* the tables the database holds, as its schema lists them
    ddl,            \* how the last create_all ended
    built           \* the statement the caller built last, see Build

vars ==
    <<variant, order, path, constructed, init_error, engine, session_maker,
      db, sessions, calls, tasks, last, metadata, catalog, ddl, built>>

\* What no call of get_session or execute assigns, apart from the session maker.
setup ==
    <<variant, order, path, constructed, init_error, engine, tasks, metadata,
      catalog, ddl, built>>

mgr == <<setup, session_maker>>

InitialTables == {EmptyTable, <<Row1, Row2>>}

Init ==
    /\ variant \in {"sync", "async"}
    /\ order \in {"insertion", "rowid"}
    /\ path \in Paths(variant)
    /\ constructed = "no"
    /\ init_error = Outcome("none", "")
    /\ engine = NoEngine
    /\ session_maker = NoMaker
    /\ db \in InitialTables
    /\ sessions = <<>>
    /\ calls = [c \in Calls |-> IdleCall]
    /\ tasks = 1
    /\ last = NoLast
    /\ metadata = <<UserTable>>
    /\ catalog = <<UserTable>>
    /\ ddl = NoDdl
    /\ built = NoBuilt

\* manager.py 75-117: __init__ stores the path and runs _engine_init, which
\* builds the engine and the session maker.
Construct(autoflush) ==
    /\ constructed = "no"
    /\ LET made == EngineFabric(variant, path)
           error == EngineError(made.error)
       IN IF error = "none"
          THEN /\ engine' = made.value
               /\ session_maker' =
                      [bind |-> made.value, autoflush |-> autoflush, set |-> TRUE]
               /\ constructed' = "ok"
               /\ init_error' = Outcome("none", "")
          ELSE /\ constructed' = "failed"
               /\ init_error' = Outcome(error, MessageOf(error, path))
               /\ UNCHANGED <<engine, session_maker>>
    /\ UNCHANGED <<variant, order, path, db, sessions, calls, tasks, last,
                   metadata, catalog, ddl, built>>

\* ------------------------------------------------- operations of a Session
OtherDirty(sid) == \E t \in DOMAIN sessions : t # sid /\ sessions[t].dirty

\* What a Session reads: its own uncommitted writes over the committed rows.
View(s) == IF s.dirty THEN s.txn ELSE db

Ran(error, session, raw) == [raw |-> raw, error |-> error, session |-> session]

\* The pending objects of session.add() are inserted (flush).
Flush(sid, s) ==
    IF s.new = <<>> THEN Ran("none", s, NoRaw)
    ELSE IF OtherDirty(sid) THEN Ran("OperationalError", s, NoRaw)
    ELSE IF InsertConflicts(s.new, View(s)) THEN Ran("IntegrityError", s, NoRaw)
    ELSE Ran("none",
             [s EXCEPT !.txn = PlaceRows(order, s.new, View(s)), !.dirty = TRUE,
                       !.new = <<>>],
             NoRaw)

\* session.execute(statement): a write needs the database's write lock and
\* must keep the primary key unique; the raw result knows whether it has rows.
RunOn(sid, s, stmt) ==
    IF IsWrite(stmt)
    THEN IF OtherDirty(sid) THEN Ran("OperationalError", s, NoRaw)
         ELSE IF stmt.op = "insert" /\ InsertConflicts(stmt.rows, View(s))
         THEN Ran("IntegrityError", s, NoRaw)
         ELSE LET table == ApplyWrite(order, stmt, View(s))
              IN Ran("none", [s EXCEPT !.txn = table, !.dirty = TRUE],
                     [target |-> stmt.target, rows |-> ResultRows(stmt, table),
                      returns_rows |-> ReturnsRows(stmt)])
    ELSE Ran("none", s,
             [target |-> stmt.target, rows |-> ResultRows(stmt, View(s)),
              returns_rows |-> ReturnsRows(stmt)])

\* session.execute with the session maker's autoflush.
ExecuteOn(sid, s, stmt) ==
    LET flushed == IF session_maker.autoflush THEN Flush(sid, s) ELSE Ran("none", s, NoRaw)
    IN IF flushed.error # "none" THEN flushed ELSE RunOn(sid, flushed.session, stmt)

\* session.commit(): flush, then the Session's writes become the committed rows.
Committed(error, session, table) == [table |-> table, error |-> error,
                                     session |-> session]

\* Mutant: commit() ends the transaction without publishing its writes.
CommitLosesWrites(sid, s) ==
    LET flushed == Flush(sid, s)
        f == flushed.session
    IN IF flushed.error # "none" THEN Committed(flushed.error, s, db)
       ELSE Committed("none",
                      [f EXCEPT !.dirty = FALSE, !.txn = EmptyTable, !.commits = @ + 1],
                      db)

CommitOn(sid, s) ==
    LET flushed == Flush(sid, s)
        f == flushed.session
    IN IF flushed.error # "none" THEN Committed(flushed.error, s, db)
       ELSE Committed("none",
                      [f EXCEPT !.dirty = FALSE, !.txn = EmptyTable, !.commits = @ + 1],
                      IF f.dirty THEN f.txn ELSE db)

\* Mutant: close() leaves the Session open.
CloseKeepsOpen(s) == s

\* Mutant: close() commits what is pending before it closes.
CloseCommits(s) ==
    [s EXCEPT !.state = "closed", !.dirty = FALSE, !.txn = EmptyTable, !.new = <<>>,
              !.commits = IF s.state = "open" THEN @ + 1 ELSE @,
              !.events = IF s.state = "open" THEN @ \o <<"commit", "close">> ELSE @]

\* session.close(): what is uncommitted is rolled back; closing a closed
\* Session changes nothing.
CloseSession(s) ==
    [s EXCEPT !.state = "closed", !.dirty = FALSE, !.txn = EmptyTable, !.new = <<>>,
              !.events = IF s.state # "closed" THEN Append(@, "close") ELSE @]

\* ---------------------------------------------------------------- calls
InFlight(c) == calls[c].pc # "idle"

\* A call takes the lowest free slot; each caller has one call in flight at a
\* time (a blocking call, or an awaited one).
CanStart(c) ==
    /\ constructed # "no"
    /\ calls[c].pc = "idle"
    /\ \A d \in Calls : d < c => InFlight(d)
    /\ Cardinality({d \in Calls : InFlight(d)}) < tasks
    /\ Len(sessions) < MaxSessions

Made(maker, id, all) == [sessions |-> all, maker |-> maker, id |-> id]

\* Mutant: the maker hands out the Session that is open already (one Session
\* kept for all callers) and makes a new one only when none is open.
SessionMakerShared(maker, existing) ==
    LET open == {i \in DOMAIN existing : existing[i].state = "open"}
    IN IF open = {} THEN Made(maker, Len(existing) + 1, Append(existing, NewSession))
       ELSE Made(maker, CHOOSE i \in open : TRUE, existing)

\* Mutant: making a Session switches the maker's autoflush off.
SessionMakerReconfigured(maker, existing) ==
    Made([maker EXCEPT !.autoflush = FALSE], Len(existing) + 1,
         Append(existing, NewSession))

\* manager.py 206 / 299: self.session_maker() makes a new Session bound to the
\* engine and leaves the maker as it is.
SessionMakerCall(maker, existing) ==
    Made(maker, Len(existing) + 1, Append(existing, NewSession))

\* manager.py 200-206 / 293-299: get_session up to the yield.  Without a
\* session maker it raises RuntimeError naming the path; otherwise the session
\* maker makes one Session, which the with statement yields.  `via` and
\* `asked` record how the caller wrote the call.
EnterAs(c, kind, via, asked, stmt, commit, scalars) ==
    /\ CanStart(c)
    /\ LET others == \E d \in Calls : d # c /\ InFlight(d)
           call == [IdleCall EXCEPT !.kind = kind, !.stmt = stmt, !.commit = commit,
                                    !.scalars = scalars, !.dbBefore = db,
                                    !.overlapped = others, !.via = via,
                                    !.asked = asked]
           mark(d) == IF InFlight(d) THEN [calls[d] EXCEPT !.overlapped = TRUE]
                      ELSE calls[d]
           made == SessionMakerCall(session_maker, sessions)
       IN IF session_maker = NoMaker
          THEN /\ calls' = [d \in Calls |->
                              IF d = c
                              THEN [call EXCEPT !.pc = "done", !.error = "RuntimeError",
                                                !.message = MessageOf("RuntimeError", path)]
                              ELSE mark(d)]
               /\ UNCHANGED <<sessions, session_maker>>
          ELSE /\ sessions' = made.sessions
               /\ session_maker' = made.maker
               /\ calls' = [d \in Calls |->
                              IF d = c
                              THEN [call EXCEPT !.pc = IF kind = "execute" THEN "execute"
                                                       ELSE "block",
                                                !.session = made.id]
                              ELSE mark(d)]
    /\ last' = IF kind = "execute" /\ \A d \in Calls : ~InFlight(d) THEN last ELSE NoLast
    /\ UNCHANGED <<setup, db>>

Enter(c, kind, stmt, commit, scalars) ==
    EnterAs(c, kind, IF kind = "execute" THEN "execute" ELSE "get_session",
            Asked(stmt, <<commit>>, <<scalars>>, <<>>), stmt, commit, scalars)

\* with manager.get_session() as session: ... (test_sync.py 20-29)
GetSession(c) == Enter(c, "block", NoStmt, FALSE, FALSE)

\* manager.py 212-219 / 305-312: execute enters get_session.
Execute(c, stmt, commit, scalars) == Enter(c, "execute", stmt, commit, scalars)

\* Mutant: get_session closes on the way out of a block that ends normally
\* only; an exception leaves the call at once.
RaiseSkipsCleanup(call, error) ==
    [call EXCEPT !.pc = "done", !.error = error, !.result = Unset,
                 !.recent = <<>>, !.script = 0,
                 !.failed = IF @.at = "none" THEN [error |-> error, at |-> call.pc]
                            ELSE @]

\* An exception leaves the with body for the finally of get_session.
Raise(call, error) ==
    [call EXCEPT !.pc = "finally", !.error = error, !.result = Unset,
                 !.recent = <<>>, !.script = 0,
                 !.failed = IF @.at = "none" THEN [error |-> error, at |-> call.pc]
                            ELSE @]

\* Mutant: execute commits before it materializes the result.
NextPcCommitFirst(pc) ==
    CASE pc = "execute" -> "commit"
      [] pc = "commit" -> "materialize"
      [] pc = "materialize" -> "finally"
      [] pc = "block" -> "finally"
      [] pc = "finally" -> "exit"
      [] pc = "exit" -> "done"
      [] OTHER -> pc

\* Mutant: execute returns from inside the with without the Session being
\* closed on the way out.
NextPcLeavesOpen(pc) ==
    CASE pc = "execute" -> "materialize"
      [] pc = "materialize" -> "commit"
      [] pc = "commit" -> "done"
      [] pc = "block" -> "finally"
      [] pc = "finally" -> "exit"
      [] pc = "exit" -> "done"
      [] OTHER -> pc

\* The order of the lines of SyncManager: execute (220), materialize (221-224), commit (226),
\* return (228) into finally: close (209-210), the end of the with (206).
NextPc(pc) ==
    CASE pc = "execute" -> "materialize"
      [] pc = "materialize" -> "commit"
      [] pc = "commit" -> "finally"
      [] pc = "block" -> "finally"
      [] pc = "finally" -> "exit"
      [] pc = "exit" -> "done"
      [] OTHER -> pc

\* The same for AsyncManager: await session.execute (313), materialize
\* (314-317), await session.commit (319), return (321) into finally: await
\* session.close (302-303), the end of the async with (299).
AsyncNextPc(pc) ==
    CASE pc = "execute" -> "materialize"
      [] pc = "materialize" -> "commit"
      [] pc = "commit" -> "finally"
      [] pc = "block" -> "finally"
      [] pc = "finally" -> "exit"
      [] pc = "exit" -> "done"
      [] OTHER -> pc

\* The call moves to its next line; leaving the body of execute is its
\* return scal_or_rows (228), whose value the caller gets once get_session ends.
Advance(call) ==
    LET to == IF variant = "async" THEN AsyncNextPc(call.pc) ELSE NextPc(call.pc)
    IN [call EXCEPT !.pc = to,
                    !.returned = IF to = "finally" /\ call.kind = "execute"
                                 THEN call.result ELSE @]

\* manager.py 220 / 313: result = session.execute(statement=statement)
RunStatement(c) ==
    /\ calls[c].pc = "execute"
    /\ LET sid == calls[c].session
           ran == ExecuteOn(sid, sessions[sid], calls[c].stmt)
       IN IF ran.error # "none"
          THEN /\ calls' = [calls EXCEPT ![c] = Raise(@, ran.error)]
               /\ UNCHANGED sessions
          ELSE /\ sessions' = [sessions EXCEPT ![sid] = Log(ran.session, "execute")]
               /\ calls' = [calls EXCEPT ![c] = Advance([@ EXCEPT !.raw = ran.raw])]
    /\ UNCHANGED <<mgr, db, last>>

\* manager.py 221-224 / 314-317
Materialize(c) ==
    /\ calls[c].pc = "materialize"
    /\ LET sid == calls[c].session
           got == Normalize(calls[c].raw, calls[c].scalars)
       IN IF got.error # "none"
          THEN /\ calls' = [calls EXCEPT ![c] = Raise(@, got.error)]
               /\ UNCHANGED sessions
          ELSE /\ sessions' = [sessions EXCEPT ![sid] = Log(@, "materialize")]
               /\ calls' = [calls EXCEPT ![c] = Advance([@ EXCEPT !.result = got.value])]
    /\ UNCHANGED <<mgr, db, last>>

\* Mutant: execute commits whatever the flag says.
WantsCommitAlways(call) == TRUE

\* Mutant: execute never commits.
WantsCommitNever(call) == FALSE

\* Mutant: a result normalized to None skips the commit.
WantsCommitIfRows(call) == call.commit /\ call.result.tag = "Seq"

\* manager.py 226 / 319: session.commit() if commit else None
WantsCommit(call) == call.commit

\* manager.py 226-228 / 319-321: the commit, then return scal_or_rows (the
\* value is handed to the caller once get_session has closed the Session).
Commit(c) ==
    /\ calls[c].pc = "commit"
    /\ LET sid == calls[c].session
           done == CommitOn(sid, sessions[sid])
       IN IF ~WantsCommit(calls[c])
          THEN /\ calls' = [calls EXCEPT ![c] = Advance(@)]
               /\ UNCHANGED <<sessions, db>>
          ELSE IF done.error # "none"
          THEN /\ calls' = [calls EXCEPT ![c] = Raise(@, done.error)]
               /\ UNCHANGED <<sessions, db>>
          ELSE /\ sessions' = [sessions EXCEPT ![sid] = Log(done.session, "commit")]
               /\ db' = done.table
               /\ calls' = [calls EXCEPT ![c] = Advance(@)]
    /\ UNCHANGED <<mgr, last>>

\* manager.py 207-210 / 300-303: finally: session.close()
Finally(c) ==
    /\ calls[c].pc = "finally"
    /\ sessions' = [sessions EXCEPT ![calls[c].session] = CloseSession(@)]
    /\ calls' = [calls EXCEPT ![c] = Advance(@)]
    /\ UNCHANGED <<mgr, db, last>>

\* manager.py 206 / 299: the with statement over self.session_maker() ends; the
\* Session's own exit closes it (again).
ExitWith(c) ==
    /\ calls[c].pc = "exit"
    /\ sessions' = [sessions EXCEPT ![calls[c].session] = CloseSession(@)]
    /\ calls' = [calls EXCEPT ![c] = Advance(@)]
    /\ UNCHANGED <<mgr, db, last>>

\* A Session whose call has returned is garbage: only its being closed is kept.
Retire(s) == IF s.state = "closed" THEN [s EXCEPT !.events = <<>>, !.commits = 0] ELSE s

\* The caller has the value or the exception; the slot is free again.  `last`
\* remembers a write that execute committed with no other call in flight, and
\* keeps it while the calls that follow leave the committed rows alone.
Return(c) ==
    /\ calls[c].pc = "done"
    /\ LET call == calls[c]
       IN last' =
             CASE call.overlapped \/ call.kind # "execute" -> NoLast
               [] call.error = "none" /\ call.commit /\ IsWrite(call.stmt) ->
                     [stmt |-> call.stmt, session |-> call.session,
                      dbBefore |-> call.dbBefore, valid |-> TRUE]
               [] db = call.dbBefore -> last
               [] OTHER -> NoLast
    /\ sessions' = IF calls[c].session = 0 THEN sessions
                   ELSE [sessions EXCEPT ![calls[c].session] = Retire(@)]
    /\ calls' = [calls EXCEPT ![c] = IdleCall]
    /\ UNCHANGED <<mgr, db>>

\* ------------------------------------- the caller's block on the Session
\* The last two operations issued in the block.
Window(recent, label) ==
    IF recent = <<>> THEN <<label>> ELSE <<recent[Len(recent)], label>>

\* The block of test_session (test_sync.py 20-29): add, commit, select, delete,
\* commit, select.  A block is on the script while its operations so far are
\* the first `script` operations of it.
TestScript == <<"add", "commit", "select", "delete", "commit", "select">>
OffScript == Len(TestScript) + 1

Follow(script, label) ==
    IF script < Len(TestScript) /\ TestScript[script + 1] = label
    THEN script + 1 ELSE OffScript

InBlock(c) == calls[c].pc = "block"

\* The value of an earlier select is of no use to the block once it moves on.
Did(call, label) ==
    [call EXCEPT !.recent = Window(@, label), !.script = Follow(@, label),
                 !.result = Unset]

\* session.add(User(id=1, name="Name")) (test_sync.py 21)
BlockAdd(c) ==
    /\ InBlock(c)
    /\ LET sid == calls[c].session
       IN /\ sessions[sid].new = <<>>
          /\ sessions' = [sessions EXCEPT ![sid].new = <<RowName>>]
    /\ calls' = [calls EXCEPT ![c] = Did(@, "add")]
    /\ UNCHANGED <<mgr, db, last>>

\* session.execute(select(User)).scalars().all(), session.execute(delete(...))
\* and session.query(User).filter(User.id == 1).delete() (test_sync.py 24-29)
BlockExecute(c, stmt) ==
    /\ InBlock(c)
    /\ LET sid == calls[c].session
           ran == ExecuteOn(sid, sessions[sid], stmt)
       IN IF ran.error # "none"
          THEN /\ calls' = [calls EXCEPT ![c] = Raise(Did(@, stmt.op), ran.error)]
               /\ UNCHANGED sessions
          ELSE /\ sessions' = [sessions EXCEPT ![sid] = ran.session]
               /\ calls' = [calls EXCEPT ![c] =
                              [Did(@, stmt.op) EXCEPT
                                  !.result = IF stmt.op = "select"
                                             THEN SeqResult(ScalarsAll(ran.raw))
                                             ELSE Unset]]
    /\ UNCHANGED <<mgr, db, last>>

\* session.commit() issued by the caller (test_sync.py 22, 27)
BlockCommit(c) ==
    /\ InBlock(c)
    /\ sessions[calls[c].session].commits < MaxBlockCommits
    /\ LET sid == calls[c].session
           done == CommitOn(sid, sessions[sid])
       IN IF done.error # "none"
          THEN /\ calls' = [calls EXCEPT ![c] = Raise(Did(@, "commit"), done.error)]
               /\ UNCHANGED <<sessions, db>>
          ELSE /\ sessions' = [sessions EXCEPT ![sid] = done.session]
               /\ db' = done.table
               /\ calls' = [calls EXCEPT ![c] = Did(@, "commit")]
    /\ UNCHANGED <<mgr, last>>

\* The caller's code raises inside the block.
BlockRaise(c) ==
    /\ calls[c].pc = "block"
    /\ calls' = [calls EXCEPT ![c] = Raise(@, "UserError")]
    /\ UNCHANGED <<mgr, db, sessions, last>>

\* The block ends normally.
BlockExit(c) ==
    /\ calls[c].pc = "block"
    /\ calls' = [calls EXCEPT ![c] = Advance([@ EXCEPT !.result = Unset, !.recent = <<>>,
                                                        !.script = 0])]
    /\ UNCHANGED <<mgr, db, sessions, last>>

\* ------------------------------------------------- the forms of a call
\* An argument the caller gives or leaves out.
Given == {<<>>, <<TRUE>>, <<FALSE>>}

\* insert(User).values(name="Tempo") (test_async.py 71): the id is left to the
\* database.
InsertTempo == Stmt("insert", "entity", <<>>, "none", <<>>, "Tempo", FALSE)

\* The keyword test_raise_close_res passes (test_async.py 71).
IgnoreClosedRes == [value |-> FALSE, name |-> "ignore_closed_res"]

\* The statements of the calls written in different forms.
FormStatements == {SelectEntity, SelectCols, InsertReturning, UpdateId1}

\* The parameters of execute (manager.py 212-217 / 305-310).
ExecuteParameters == {"statement", "commit", "scalars"}

\* Mutant: execute returns full rows unless told otherwise.
ExecuteDefaultsRows == [scalars |-> FALSE, commit |-> FALSE]

\* manager.py 216-217 / 309-310: commit: bool = False, scalars: bool = True
ExecuteDefaults == [scalars |-> TRUE, commit |-> FALSE]

\* manager.py 234-235 / 327-328: the same defaults on __call__
CallDefaults == [scalars |-> TRUE, commit |-> FALSE]

\* Python binds a keyword argument that is given and the default otherwise.
Bind(defaults, commit, scalars) ==
    [scalars |-> IF scalars = <<>> THEN defaults.scalars ELSE scalars[1],
     commit |-> IF commit = <<>> THEN defaults.commit ELSE commit[1]]

Forwarded(stmt, commit, scalars) ==
    [scalars |-> scalars, commit |-> commit, statement |-> stmt]

\* Mutant: __call__ passes the statement and commit on and forgets scalars.
ForwardDropsScalars(stmt, commit, scalars) == Forwarded(stmt, <<commit>>, <<>>)

\* manager.py 237 / 330:
\* return self.execute(statement=statement, commit=commit, scalars=scalars)
Forward(stmt, commit, scalars) == Forwarded(stmt, <<commit>>, <<scalars>>)

\* manager.execute(statement, ...) with the keyword arguments the caller
\* writes.  A keyword that is no parameter of execute makes the call raise
\* TypeError before the body runs: no Session is made.
ExecuteGiven(c, stmt, commit, scalars, extra) ==
    LET asked == Asked(stmt, commit, scalars, extra)
        bound == Bind(ExecuteDefaults, commit, scalars)
    IN IF \E i \in 1..Len(extra) : extra[i].name \notin ExecuteParameters
       THEN /\ CanStart(c)
            /\ calls' = [calls EXCEPT ![c] =
                           [IdleCall EXCEPT !.pc = "done", !.kind = "execute",
                                            !.via = "execute", !.asked = asked,
                                            !.stmt = stmt, !.dbBefore = db,
                                            !.error = "TypeError"]]
            /\ UNCHANGED <<mgr, db, sessions, last>>
       ELSE EnterAs(c, "execute", "execute", asked, stmt, bound.commit, bound.scalars)

\* manager.py 230-237 / 323-330: manager(statement, ...)
Call(c, stmt, commit, scalars) ==
    LET own == Bind(CallDefaults, commit, scalars)
        fwd == Forward(stmt, own.commit, own.scalars)
        bound == Bind(ExecuteDefaults, fwd.commit, fwd.scalars)
    IN EnterAs(c, "execute", "call", Asked(stmt, commit, scalars, <<>>),
               fwd.statement, bound.commit, bound.scalars)

\* ------------------------------------- callers at once, and what goes wrong
\* Cancellations one call takes (asyncio's Task.cancel() can be called again).
MaxCancels == 2

\* The statements of the calls that run side by side.
TaskStatements == {SelectEntity, InsertBoth}

\* The statements of the calls that are cancelled or that the driver fails.
FaultStatements == {SelectEntity, InsertBoth, DeleteAll}

\* The task that awaits the call is cancelled: CancelledError is raised at the
\* await the call is suspended in.  The awaited operation may or may not have
\* gone through.  At the end of the async with, AsyncSession.__aexit__ awaits
\* close() as a shielded task, which a cancellation does not stop ("closing").
Cancel(c) ==
    /\ variant = "async"
    /\ calls[c].kind = "execute"
    /\ calls[c].cancels < MaxCancels
    /\ LET call == calls[c]
           sid == call.session
           s == sessions[sid]
           hit == [call EXCEPT !.cancels = @ + 1, !.returned = Unset]
       IN \/ /\ call.pc = "execute"
             /\ \E through \in BOOLEAN :
                   LET ran == ExecuteOn(sid, s, call.stmt)
                   IN sessions' = IF through /\ ran.error = "none"
                                  THEN [sessions EXCEPT ![sid] = ran.session]
                                  ELSE sessions
             /\ calls' = [calls EXCEPT ![c] = Raise(hit, "CancelledError")]
             /\ UNCHANGED db
          \/ /\ call.pc = "commit"
             /\ WantsCommit(call)
             /\ \E through \in BOOLEAN :
                   LET done == CommitOn(sid, s)
                   IN IF through /\ done.error = "none"
                      THEN /\ sessions' = [sessions EXCEPT ![sid] = Log(done.session, "commit")]
                           /\ db' = done.table
                      ELSE UNCHANGED <<sessions, db>>
             /\ calls' = [calls EXCEPT ![c] = Raise(hit, "CancelledError")]
          \/ /\ call.pc = "finally"
             /\ \E through \in BOOLEAN :
                   sessions' = IF through THEN [sessions EXCEPT ![sid] = CloseSession(@)]
                               ELSE sessions
             /\ calls' = [calls EXCEPT ![c] =
                            [Raise(hit, "CancelledError") EXCEPT !.pc = "exit"]]
             /\ UNCHANGED db
          \/ /\ call.pc = "exit"
             /\ sessions' = [sessions EXCEPT ![sid] =
                               IF @.state = "closed" THEN @ ELSE [@ EXCEPT !.state = "closing"]]
             /\ calls' = [calls EXCEPT ![c] =
                            [Raise(hit, "CancelledError") EXCEPT !.pc = "done"]]
             /\ UNCHANGED db
    /\ UNCHANGED <<mgr, last>>

\* The shielded close() of AsyncSession.__aexit__ runs to its end.
CloseTask(sid) ==
    /\ sessions[sid].state = "closing"
    /\ sessions' = [sessions EXCEPT ![sid] =
                      IF \E c \in Calls : calls[c].session = sid THEN CloseSession(@)
                      ELSE Retire(CloseSession(@))]
    /\ UNCHANGED <<mgr, db, calls, last>>

\* The driver fails (the connection is lost) in session.execute (220), while
\* the rows are fetched (222) or in session.commit (226); a failed commit
\* publishes nothing.
Fail(c) ==
    /\ calls[c].kind = "execute"
    /\ LET call == calls[c]
           lost == [call.raw EXCEPT !.target = "lost"]
           got == Normalize(lost, call.scalars)
       IN \/ /\ call.pc = "execute"
             /\ calls' = [calls EXCEPT ![c] = Raise(@, "DBAPIError")]
          \/ /\ call.pc = "materialize"
             /\ call.raw.returns_rows
             /\ calls' = [calls EXCEPT ![c] =
                            IF got.error # "none" THEN Raise([@ EXCEPT !.raw = lost], got.error)
                            ELSE Advance([@ EXCEPT !.raw = lost, !.result = got.value])]
          \/ /\ call.pc = "commit"
             /\ WantsCommit(call)
             /\ calls' = [calls EXCEPT ![c] = Raise(@, "DBAPIError")]
    /\ UNCHANGED <<mgr, db, sessions, last>>

\* ------------------------------------------------------------ the system
Next ==
    \/ \E autoflush \in BOOLEAN : Construct(autoflush)
    \/ \E c \in Calls : GetSession(c)
    \/ \E c \in Calls, stmt \in Statements, commit, scalars \in BOOLEAN :
          Execute(c, stmt, commit, scalars)
    \/ \E c \in Calls : RunStatement(c)
    \/ \E c \in Calls : Materialize(c)
    \/ \E c \in Calls : Commit(c)
    \/ \E c \in Calls : Finally(c)
    \/ \E c \in Calls : ExitWith(c)
    \/ \E c \in Calls : Return(c)
    \/ \E c \in Calls : BlockAdd(c)
    \/ \E c \in Calls, stmt \in BlockStatements : BlockExecute(c, stmt)
    \/ \E c \in Calls : BlockCommit(c)
    \/ \E c \in Calls : BlockRaise(c)
    \/ \E c \in Calls : BlockExit(c)

Spec == Init /\ [][Next]_vars

\* A manager on its own database URL, not yet constructed, for `n` callers.
InitFor(n) ==
    /\ variant \in {"sync", "async"}
    /\ order = "rowid"
    /\ path = IF variant = "sync" THEN SyncUrl ELSE AsyncUrl
    /\ constructed = "no"
    /\ init_error = Outcome("none", "")
    /\ engine = NoEngine
    /\ session_maker = NoMaker
    /\ db \in InitialTables
    /\ sessions = <<>>
    /\ calls = [c \in Calls |-> IdleCall]
    /\ tasks = n
    /\ last = NoLast
    /\ metadata = <<UserTable>>
    /\ catalog = <<UserTable>>
    /\ ddl = NoDdl
    /\ built = NoBuilt

\* Callers at once on one manager: MaxCalls coroutines await an AsyncManager
\* side by side; the caller of a SyncManager blocks until its call returns.
InitTasks == InitFor(IF variant = "async" THEN MaxCalls ELSE 1)

NextTasks ==
    \/ Construct(TRUE)
    \/ \E c \in Calls : GetSession(c)
    \/ \E c \in Calls, stmt \in TaskStatements, commit \in BOOLEAN :
          Execute(c, stmt, commit, TRUE)
    \/ \E c \in Calls : RunStatement(c)
    \/ \E c \in Calls : Materialize(c)
    \/ \E c \in Calls : Commit(c)
    \/ \E c \in Calls : Finally(c)
    \/ \E c \in Calls : ExitWith(c)
    \/ \E c \in Calls : Return(c)
    \/ \E c \in Calls : BlockRaise(c)
    \/ \E c \in Calls : BlockExit(c)

SpecTasks == InitTasks /\ [][NextTasks]_vars

\* One caller whose calls are cancelled or hit by a failure of the driver.
InitFaults == InitFor(1)

NextFaults ==
    \/ Construct(TRUE)
    \/ \E c \in Calls, stmt \in FaultStatements, commit, scalars \in BOOLEAN :
          Execute(c, stmt, commit, scalars)
    \/ \E c \in Calls : RunStatement(c)
    \/ \E c \in Calls : Materialize(c)
    \/ \E c \in Calls : Commit(c)
    \/ \E c \in Calls : Finally(c)
    \/ \E c \in Calls : ExitWith(c)
    \/ \E c \in Calls : Return(c)
    \/ \E c \in Calls : Cancel(c)
    \/ \E c \in Calls : Fail(c)
    \/ \E sid \in DOMAIN sessions : CloseTask(sid)

SpecFaults == InitFaults /\ [][NextFaults]_vars

\* One caller that writes its calls in every form: execute with keyword
\* arguments given or left out, the manager called as a function, and the
\* call of test_raise_close_res.
InitForms == InitFor(1)

NextForms ==
    \/ Construct(TRUE)
    \/ \E c \in Calls, stmt \in FormStatements, commit, scalars \in Given :
          ExecuteGiven(c, stmt, commit, scalars, <<>>)
    \/ \E c \in Calls : ExecuteGiven(c, InsertTempo, <<>>, <<>>, <<IgnoreClosedRes>>)
    \/ \E c \in Calls, stmt \in FormStatements, commit, scalars \in Given :
          Call(c, stmt, commit, scalars)
    \/ \E c \in Calls : RunStatement(c)
    \/ \E c \in Calls : Materialize(c)
    \/ \E c \in Calls : Commit(c)
    \/ \E c \in Calls : Finally(c)
    \/ \E c \in Calls : ExitWith(c)
    \/ \E c \in Calls : Return(c)

SpecForms == InitForms /\ [][NextForms]_vars

\* ------------------------------------------ the schema and its tables
MaxColumns == 2
MaxChain == 2

Has(seq, x) == \E i \in DOMAIN seq : seq[i] = x

\* Every table a model class can register, in the order of the names.
TableNames == <<PostTable, UserTable>>

\* The values a caller passes for `tables`: None, or a list of tables.
TableLists ==
    {<<>>, <<UserTable>>, <<PostTable>>, <<UserTable, PostTable>>,
     <<PostTable, UserTable>>}

\* A model class is declared on manager.Base (conftest.py 43-47): its table
\* joins the metadata.
Declare(t) ==
    /\ constructed = "ok"
    /\ ~Has(metadata, t)
    /\ metadata' = Append(metadata, t)
    /\ UNCHANGED <<variant, order, path, constructed, init_error, engine,
                   session_maker, db, sessions, calls, tasks, last, catalog, ddl,
                   built>>

\* MetaData.create_all sorts the tables it was given, which for tables
\* without foreign keys is the order of their names.
SortTables(tables) == SelectSeq(TableNames, LAMBDA t : Has(tables, t))

\* checkfirst ignored: every table is created, present or not.
CanCreateUnchecked(checkfirst, present, t) == TRUE

\* With checkfirst a table is created only if the database does not hold it.
CanCreateTable(checkfirst, present, t) == ~checkfirst \/ ~Has(present, t)

\* MetaData.create_all(bind, tables, checkfirst): CREATE TABLE for every
\* table that can be created; CREATE TABLE of a table the database holds
\* raises OperationalError, and the tables created before it stay unless the
\* driver ran the statements in a transaction that is rolled back.
MetadataCreateAll(registered, tables, checkfirst, present, rolledBack) ==
    LET wanted == SortTables(IF tables = <<>> THEN registered ELSE tables[1])
        todo == SelectSeq(wanted, LAMBDA t : CanCreateTable(checkfirst, present, t))
        clash == {i \in DOMAIN todo : Has(present, todo[i])}
        first == CHOOSE i \in clash : \A j \in clash : i <= j
        done == IF clash = {} THEN todo
                ELSE IF rolledBack THEN <<>>
                ELSE SubSeq(todo, 1, first - 1)
    IN Ddl(tables, checkfirst, wanted,
           IF clash = {} THEN "none" ELSE "OperationalError", done, present)

\* manager.py 192-198 and 280-291: create_all hands its arguments to
\* self.Base.metadata.create_all on the engine; the asynchronous variant does
\* so inside engine.begin().
CreateAll(tables, checkfirst) ==
    /\ constructed = "ok"
    /\ tables # <<>> => \A i \in DOMAIN tables[1] : Has(metadata, tables[1][i])
    /\ \E rolledBack \in BOOLEAN :
          LET run == MetadataCreateAll(metadata, tables, checkfirst, catalog, rolledBack)
          IN /\ ddl' = run
             /\ catalog' = catalog \o run.created
    /\ UNCHANGED <<variant, order, path, constructed, init_error, engine,
                   session_maker, db, sessions, calls, tasks, last, metadata,
                   built>>

\* ------------------------------------------------ the statement factory
Classes == {"User"}

Columns == {"User.id", "User.name"}

\* The criterion and the column of the tests' chained statements.
IdIs1 == "User.id = 1"

ReturnedColumn == "User.id"

RECURSIVE SeqsUpTo(_, _)
SeqsUpTo(S, n) ==
    IF n = 0 THEN {<<>>}
    ELSE SeqsUpTo(S, n - 1)
         \cup {Append(s, x) : s \in {t \in SeqsUpTo(S, n - 1) : Len(t) = n - 1}, x \in S}

\* What the callers index the manager with: the model class, a column, or a
\* tuple of one to MaxColumns columns.
Keys ==
    {Obj(e) : e \in Classes \cup Columns}
    \cup {Tuple(items) : items \in SeqsUpTo({Obj(col) : col \in Columns}, MaxColumns) \ {<<>>}}
    \cup {Tuple(<<Obj(e)>>) : e \in Classes}

\* The methods chained on a built statement, in order.
Chains == SeqsUpTo({"where", "returning"}, MaxChain)

\* selector.py 10-14: Selector(*entities) keeps its positional arguments.
Selector(entities) == [entities |-> entities]

\* Without unpacking: a tuple key becomes the Selector's only entity.
GetItemPacked(key) == Selector(<<key>>)

\* manager.py 119-125: a sequence is unpacked into the Selector's arguments,
\* anything else is its only argument.
GetItem(key) == IF key.seq THEN Selector(key.items) ELSE Selector(<<key>>)

Names(args) == [i \in DOMAIN args |-> args[i].name]

\* sqlalchemy.select(*entities): any number of classes and columns, none of
\* them a list or tuple.
SqlSelect(args) ==
    IF \E i \in DOMAIN args : args[i].seq THEN Failure("ArgumentError")
    ELSE Statement("select", Names(args), <<>>, <<>>)

\* sqlalchemy.insert(table), update(table), delete(table): exactly one
\* argument, which has to name a table.
SqlDml(op, args) ==
    IF Len(args) # 1 THEN Failure("TypeError")
    ELSE IF args[1].seq \/ args[1].name \notin Classes THEN Failure("ArgumentError")
    ELSE Statement(op, Names(args), <<>>, <<>>)

SqlBuild(op, args) == IF op = "select" THEN SqlSelect(args) ELSE SqlDml(op, args)

\* selector.py 16-83: each property hands the entities to the constructor of
\* its statement.
SelectorProperty(selector, op) == SqlBuild(op, selector.entities)

\* statement.where(User.id == 1); an Insert has no where.
Where(stmt) ==
    IF stmt.error # "none" THEN stmt
    ELSE IF stmt.op = "insert" THEN Failure("AttributeError")
    ELSE [stmt EXCEPT !.where = Append(@, IdIs1)]

\* statement.returning(User.id); a Select has no returning.
Returning(stmt) ==
    IF stmt.error # "none" THEN stmt
    ELSE IF stmt.op = "select" THEN Failure("AttributeError")
    ELSE [stmt EXCEPT !.returning = Append(@, ReturnedColumn)]

RECURSIVE Chained(_, _)
Chained(stmt, chain) ==
    IF chain = <<>> THEN stmt
    ELSE Chained(IF Head(chain) = "where" THEN Where(stmt) ELSE Returning(stmt),
                 Tail(chain))

\* The objects a key names, in the order the caller wrote them.
EntitiesOf(key) == IF key.seq THEN key.items ELSE <<key>>

\* test_selector.py 13-55: a statement is built through manager[key] and
\* built directly from the same entities, and the same methods are chained
\* on both.
Build(key, op, chain) ==
    /\ constructed = "ok"
    /\ built' =
          [op |-> op, made |-> TRUE, key |-> key, chain |-> chain,
           selector |-> Chained(SelectorProperty(GetItem(key), op), chain),
           direct |-> Chained(SqlBuild(op, EntitiesOf(key)), chain)]
    /\ UNCHANGED <<variant, order, path, constructed, init_error, engine,
                   session_maker, db, sessions, calls, tasks, last, metadata,
                   catalog, ddl>>

\* A manager on a database that holds table user or no table yet, whose
\* caller declares model classes and materializes them.
InitSetup ==
    /\ variant \in {"sync", "async"}
    /\ order = "rowid"
    /\ path = IF variant = "sync" THEN SyncUrl ELSE AsyncUrl
    /\ constructed = "no"
    /\ init_error = Outcome("none", "")
    /\ engine = NoEngine
    /\ session_maker = NoMaker
    /\ catalog \in {<<>>, <<UserTable>>}
    /\ db \in IF catalog = <<>> THEN {EmptyTable} ELSE InitialTables
    /\ sessions = <<>>
    /\ calls = [c \in Calls |-> IdleCall]
    /\ tasks = 1
    /\ last = NoLast
    /\ metadata \in {<<>>, <<UserTable>>}
    /\ ddl = NoDdl
    /\ built = NoBuilt

NextSetup ==
    \/ Construct(TRUE)
    \/ \E t \in {UserTable, PostTable} : Declare(t)
    \/ \E tables \in {<<>>} \cup {<<list>> : list \in TableLists}, checkfirst \in BOOLEAN :
          CreateAll(tables, checkfirst)

SpecSetup == InitSetup /\ [][NextSetup]_vars

\* A caller that builds statements through the manager and directly.
InitSelector == InitFor(1)

NextSelector ==
    \/ Construct(TRUE)
    \/ \E key \in Keys, op \in {"select", "insert", "update", "delete"},
          chain \in Chains :
          Build(key, op, chain)

SpecSelector == InitSelector /\ [][NextSelector]_vars

\* Callers at once under the scheduling the program runs with: a line of the
\* manager that can run does run (the thread of a SyncManager goes on, the
\* event loop resumes a coroutine whose await is over), while a caller may
\* stay inside its get_session() block for ever and nothing makes it call
\* again.
InitLive == InitFor(IF variant = "async" THEN MaxCalls ELSE 1)

NextLive ==
    \/ Construct(TRUE)
    \/ \E c \in Calls : GetSession(c)
    \/ \E c \in Calls : Execute(c, InsertBoth, TRUE, TRUE)
    \/ \E c \in Calls : RunStatement(c)
    \/ \E c \in Calls : Materialize(c)
    \/ \E c \in Calls : Commit(c)
    \/ \E c \in Calls : Finally(c)
    \/ \E c \in Calls : ExitWith(c)
    \/ \E c \in Calls : Return(c)
    \/ \E c \in Calls : BlockRaise(c)
    \/ \E c \in Calls : BlockExit(c)

Scheduling ==
    \A c \in Calls :
        /\ WF_vars(RunStatement(c))
        /\ WF_vars(Materialize(c))
        /\ WF_vars(Commit(c))
        /\ WF_vars(Finally(c))
        /\ WF_vars(ExitWith(c))

SpecLive == InitLive /\ [][NextLive]_vars /\ Scheduling

\* =================================================================== claims
SessionOf(c) == sessions[calls[c].session]

HasSession(c) == InFlight(c) /\ calls[c].session # 0

\* A call of execute that has returned a value to its caller.
Returned(c) ==
    /\ calls[c].kind = "execute"
    /\ calls[c].pc = "done"
    /\ calls[c].error = "none"

IsPrefix(a, b) == Len(a) <= Len(b) /\ a = SubSeq(b, 1, Len(a))

\* ----------------------------------------------------------------------- C1
\* A Session is left when no call holds it any more, or the call that holds
\* it has come out of get_session (pc = "done", with a value or an exception).
SessionLeft(sid) == \A c \in Calls : calls[c].session = sid => calls[c].pc = "done"

\* C1: for SyncManager and AsyncManager alike, once a get_session() block has
\* been left, normally or by an exception raised inside it, the Session the
\* block yielded is closed; no way out of the block leaves it open.
C1_SessionClosedAfterBlock ==
    \A sid \in DOMAIN sessions : SessionLeft(sid) => sessions[sid].state = "closed"

\* An AsyncManager block that the caller's own exception ended: its Session
\* is closed, and closing is all the manager did on it.
C1_Witness ==
    \E c \in Calls :
        /\ variant = "async"
        /\ calls[c].kind = "block"
        /\ calls[c].pc = "done"
        /\ calls[c].error = "UserError"
        /\ SessionOf(c).state = "closed"
        /\ SessionOf(c).events = <<"close">>

\* ----------------------------------------------------------------------- C2
ExecuteSteps == <<"execute", "materialize", "commit", "close">>

\* C2: in every execute(statement, commit=true) that succeeds, the steps on
\* its one Session are statement execution, result materialization, commit,
\* close, and only then the return to the caller; while the call runs, what
\* has happened so far is a prefix of that order.
C2_CommitAfterMaterializeBeforeClose ==
    \A c \in Calls :
        (HasSession(c) /\ calls[c].kind = "execute" /\ calls[c].commit
            /\ calls[c].error = "none")
        => /\ IsPrefix(SessionOf(c).events, ExecuteSteps)
           /\ calls[c].pc = "done" => SessionOf(c).events = ExecuteSteps
           /\ calls[c].returned # Unset => "commit" \in {SessionOf(c).events[i] :
                                              i \in 1..Len(SessionOf(c).events)}

\* A committed select of rows has returned its rows after all four steps.
C2_Witness ==
    \E c \in Calls :
        /\ Returned(c)
        /\ calls[c].commit
        /\ calls[c].stmt = SelectCols
        /\ Len(calls[c].returned.items) = 2
        /\ SessionOf(c).events = ExecuteSteps

\* ----------------------------------------------------------------------- C3
\* A commit on Session sid is asked for when its call is execute at line 226
\* with commit=true, or when the caller issues it inside its own block.
CommitAskedFor(sid) ==
    \E c \in Calls :
        /\ calls[c].session = sid
        /\ \/ calls[c].kind = "execute" /\ calls[c].pc = "commit" /\ calls[c].commit
           \/ calls[c].kind = "block" /\ calls[c].pc = "block"

\* C3: the manager never commits implicitly.  No step commits a Session, or
\* changes the committed rows, unless that commit was asked for: execute with
\* commit=false commits nothing, and get_session commits neither when it
\* makes the Session nor when it closes it.
C3_NoImplicitCommit ==
    [][/\ \A sid \in DOMAIN sessions :
              sessions'[sid].commits > sessions[sid].commits => CommitAskedFor(sid)
       /\ \A sid \in DOMAIN sessions' :
              sid \notin DOMAIN sessions => sessions'[sid].commits = 0
       /\ db' # db => \E sid \in DOMAIN sessions : CommitAskedFor(sid)]_vars

\* execute(delete all, commit=false) has returned: its Session never
\* committed and the rows are all still there.
C3_Witness ==
    \E c \in Calls :
        /\ Returned(c)
        /\ ~calls[c].commit
        /\ calls[c].stmt = DeleteAll
        /\ SessionOf(c).commits = 0
        /\ db = <<Row1, Row2>>

\* ----------------------------------------------------------------------- C4
StatementRan(events) == \E i \in 1..Len(events) : events[i] = "execute"

\* C4: execute on a statement without a readable result set (an insert,
\* update or delete without RETURNING), whatever scalars and commit are,
\* returns None once the statement has run, and no call ever ends with the
\* "no result set" condition (ResourceClosedError) as its exception.
C4_NoResultIsNone ==
    \A c \in Calls :
        /\ calls[c].error # "ResourceClosedError"
        /\ (HasSession(c) /\ calls[c].kind = "execute" /\ calls[c].pc = "done"
               /\ ~ReturnsRows(calls[c].stmt) /\ StatementRan(SessionOf(c).events))
           => calls[c].error = "none" /\ calls[c].returned = NoneResult

\* An update with scalars=false and commit=true has returned None.
C4_Witness ==
    \E c \in Calls :
        /\ Returned(c)
        /\ calls[c].stmt = UpdateId1
        /\ ~calls[c].scalars
        /\ calls[c].commit
        /\ calls[c].returned = NoneResult

\* ----------------------------------------------------------------------- C5
\* C5: on a manager whose session maker is absent (no engine initialization
\* has succeeded), get_session and execute fail with the RuntimeError of
\* lines 203-205, whose message holds the connection string, and make no
\* Session and return no value.
C5_NotConnectedNamesPath ==
    session_maker = NoMaker =>
        /\ sessions = <<>>
        /\ \A c \in Calls :
              InFlight(c) =>
                  /\ calls[c].pc = "done"
                  /\ calls[c].error = "RuntimeError"
                  /\ calls[c].message = path
                  /\ calls[c].session = 0
                  /\ calls[c].returned = Unset

\* execute on a manager whose __init__ failed.
C5_Witness ==
    \E c \in Calls :
        /\ constructed = "failed"
        /\ calls[c].kind = "execute"
        /\ calls[c].error = "RuntimeError"
        /\ calls[c].message = BadUrl

\* ----------------------------------------------------------------------- C6
\* C6: when the connection string cannot be parsed, engine construction fails
\* with the manager's own BadPathError, never with the library's
\* ArgumentError, and never passes as a success.
C6_BadPathError ==
    /\ init_error.error # "ArgumentError"
    /\ (path = BadUrl /\ constructed # "no")
       => /\ constructed = "failed"
          /\ init_error.error = "BadPathError"
          /\ engine = NoEngine
          /\ session_maker = NoMaker

\* __init__ has failed on the string that is no URL.
C6_Witness ==
    /\ constructed = "failed"
    /\ path = BadUrl
    /\ init_error = Outcome("BadPathError", BadUrl)

\* ----------------------------------------------------------------------- C7
\* C7: constructing a manager does not connect: after construction (the code
\* has no later connect) the manager has no engine and its session maker is
\* None.
C7_ConstructionDoesNotConnect ==
    constructed # "no" => engine = NoEngine /\ session_maker = NoMaker

\* ----------------------------------------------------------------------- C8
\* A select that execute has answered, after an insert that execute committed
\* into the empty table (`last`), with no other call in flight meanwhile.
ReadAfterInsert(c) ==
    /\ Returned(c)
    /\ ~calls[c].overlapped
    /\ last.valid
    /\ last.stmt.op = "insert"
    /\ last.dbBefore = EmptyTable

RowItems(rows) == [i \in 1..Len(rows) |-> Item("row", rows[i])]

Elements(seq) == {seq[i] : i \in 1..Len(seq)}

\* The scan order of the storage is the order of insertion for these rows.
KeepsInsertionOrder(rows) == PlaceRows(order, rows, EmptyTable) = rows

\* C8: (as first claimed) on an empty table, execute(insert of N rows, commit=true)
\* followed by execute(select of the columns, scalars=false) returns exactly
\* the N inserted tuples in insertion order, and execute(select of the
\* entity) returns a sequence of length N.
C8_InsertionOrderAlways ==
    \A c \in Calls :
        ReadAfterInsert(c) =>
            /\ (calls[c].stmt = SelectCols /\ ~calls[c].scalars)
               => calls[c].returned = SeqResult(RowItems(last.stmt.rows))
            /\ calls[c].stmt = SelectEntity
               => Len(calls[c].returned.items) = Len(last.stmt.rows)

\* C8: (as amended) on an empty table, after execute(insert of N rows,
\* commit=true), the select of the columns returns exactly N rows, which are
\* the inserted tuples, and returns them in insertion order when the storage
\* scans the table in insertion order; the select of the entity returns a
\* sequence of length N.
C8_InsertThenSelect ==
    \A c \in Calls :
        ReadAfterInsert(c) =>
            /\ (calls[c].stmt = SelectCols /\ ~calls[c].scalars)
               => /\ calls[c].returned.tag = "Seq"
                  /\ Len(calls[c].returned.items) = Len(last.stmt.rows)
                  /\ Elements(calls[c].returned.items) = Elements(RowItems(last.stmt.rows))
                  /\ KeepsInsertionOrder(last.stmt.rows)
                     => calls[c].returned = SeqResult(RowItems(last.stmt.rows))
            /\ calls[c].stmt = SelectEntity
               => /\ calls[c].returned.tag = "Seq"
                  /\ Len(calls[c].returned.items) = Len(last.stmt.rows)

\* The test's data, [(1, "Name1"), (2, "Name2")], read back as full rows.
C8_Witness ==
    \E c \in Calls :
        /\ ReadAfterInsert(c)
        /\ last.stmt = InsertBoth
        /\ calls[c].stmt = SelectCols
        /\ ~calls[c].scalars
        /\ calls[c].returned = SeqResult(<<Item("row", Row1), Item("row", Row2)>>)

\* ----------------------------------------------------------------------- C9
\* A select that execute has answered after a write that execute committed
\* (`last`); only calls that left the committed rows alone lie between them.
ReadAfterWrite(c) ==
    /\ Returned(c)
    /\ ~calls[c].overlapped
    /\ calls[c].stmt.op = "select"
    /\ last.valid

\* What the select must return if it reads the rows the write left.
Expected(stmt, scalars, table) ==
    LET raw == [target |-> stmt.target, rows |-> Filter(stmt, table),
                returns_rows |-> TRUE]
    IN SeqResult(IF scalars THEN ScalarsAll(raw) ELSE RowsAll(raw))

\* C9: a write executed with commit=true is visible to the execute calls that
\* come later on the same manager, each in a Session of its own: the select
\* returns what it selects from the rows the write left.  So after the update
\* of row id=1 the select on the new name returns that row, after a filtered
\* delete the select has as many rows fewer as matched, and after the
\* unfiltered delete it returns the empty sequence.
C9_CommittedWritesVisible ==
    \A c \in Calls :
        ReadAfterWrite(c) =>
            LET before == last.dbBefore
                after == ApplyWrite(order, last.stmt, before)
                got == calls[c].returned
            IN /\ calls[c].session # last.session
               /\ got = Expected(calls[c].stmt, calls[c].scalars, after)
               /\ (last.stmt = UpdateId1 /\ calls[c].stmt = SelectNewName
                      /\ calls[c].scalars /\ 1 \in RowIds(before))
                  => Item("entity", <<1, "NewName">>) \in Elements(got.items)
               /\ (last.stmt.op = "delete" /\ calls[c].stmt \in {SelectEntity, SelectCols})
                  => Len(got.items) = Len(before) - Len(Filter(last.stmt, before))
               /\ (last.stmt = DeleteAll) => got = SeqResult(<<>>)

\* After the committed delete of "Name2" from the two rows, a later call's
\* select of the entity returns the one row left.
C9_Witness ==
    \E c \in Calls :
        /\ ReadAfterWrite(c)
        /\ last.stmt = DeleteName2
        /\ last.dbBefore = <<Row1, Row2>>
        /\ calls[c].stmt = SelectEntity
        /\ calls[c].scalars
        /\ calls[c].returned = SeqResult(<<Item("entity", Row1)>>)

\* ---------------------------------------------------------------------- C10
\* The caller is inside its get_session() block, alone on the manager.
InOwnBlock(c) ==
    /\ calls[c].kind = "block"
    /\ calls[c].pc = "block"
    /\ ~calls[c].overlapped

Entities(table) == [i \in 1..Len(table) |-> Item("entity", table[i])]

\* C10: inside one get_session() block the Session stays open across the
\* caller's statements and commits, and a select issued after a commit sees
\* what the block has committed.  In the block of the test, the select after
\* add + commit returns the added row (one row, on the empty table) and the
\* select after delete + commit returns that row no more (zero rows).
C10_BlockSeesItsCommits ==
    \A c \in Calls :
        InOwnBlock(c) =>
            LET got == calls[c].result
            IN /\ SessionOf(c).state = "open"
               /\ calls[c].recent = <<"commit", "select">>
                  => got = SeqResult(Entities(db))
               /\ calls[c].script = 3
                  => /\ Item("entity", RowName) \in Elements(got.items)
                     /\ Len(got.items) = Len(calls[c].dbBefore) + 1
               /\ calls[c].script = Len(TestScript)
                  => /\ Item("entity", RowName) \notin Elements(got.items)
                     /\ Len(got.items) = Len(calls[c].dbBefore)

\* The test: on the empty table, after add + commit and then delete + commit
\* (the second commit of the block) the select returns no row, on a Session
\* that is still open.
C10_Witness ==
    \E c \in Calls :
        /\ InOwnBlock(c)
        /\ calls[c].dbBefore = EmptyTable
        /\ calls[c].script = Len(TestScript)
        /\ SessionOf(c).commits = 2
        /\ SessionOf(c).state = "open"
        /\ calls[c].result = SeqResult(<<>>)

\* ---------------------------------------------------------------------- C11
\* The step starts a call: a slot goes from idle to in flight.
Starts(c) == calls[c].pc = "idle" /\ calls'[c].pc # "idle"

\* The step is the commit of execute call c (line 226 / 319 with commit=true).
Commits(c) ==
    /\ calls[c].kind = "execute"
    /\ calls[c].pc = "commit"
    /\ calls[c].commit
    /\ calls'[c].pc # "commit"

\* No Session is held by two calls.
NoSharedSession ==
    \A c, d \in Calls :
        (c # d /\ HasSession(c) /\ HasSession(d)) => calls[c].session # calls[d].session

\* C11: every get_session or execute call makes exactly one new Session, which
\* no earlier call has used, and no other step makes one; no Session is held
\* by two calls, whether they run one after the other or side by side; and a
\* commit issued by one call publishes that call's own statement only and
\* leaves the Session of every other call, with what it has pending, alone.
C11_OneSessionPerCall ==
    /\ []NoSharedSession
    /\ [][/\ \A c \in Calls :
                (Starts(c) /\ session_maker # NoMaker)
                => /\ Len(sessions') = Len(sessions) + 1
                   /\ calls'[c].session = Len(sessions')
                   /\ sessions'[Len(sessions')] = NewSession
                   /\ \A d \in Calls : d # c => calls'[d].session # calls'[c].session
          /\ (\A c \in Calls : ~Starts(c)) => Len(sessions') = Len(sessions)
          /\ \A c \in Calls :
                Commits(c)
                => /\ db' = ApplyWrite(order, calls[c].stmt, db)
                   /\ \A d \in Calls :
                         (d # c /\ HasSession(d))
                         => sessions'[calls[d].session] = sessions[calls[d].session]
          /\ db' # db => \E c \in Calls : Commits(c)]_vars

\* Two calls side by side on an AsyncManager: one has run its insert without
\* committing, the other has committed its select in a Session of its own, and
\* the inserted rows are not published.
C11_Witness ==
    \E c, d \in Calls :
        /\ variant = "async"
        /\ calls[c].kind = "execute" /\ calls[d].kind = "execute"
        /\ calls[c].stmt = InsertBoth /\ ~calls[c].commit
        /\ HasSession(c) /\ HasSession(d)
        /\ SessionOf(c).dirty
        /\ calls[d].stmt = SelectEntity /\ calls[d].commit
        /\ SessionOf(d).commits = 1
        /\ calls[c].session # calls[d].session
        /\ db = EmptyTable

\* ---------------------------------------------------------------------- C12
\* An execute call on an AsyncManager that took a cancellation and has ended.
CancelledAndLeft(c) ==
    /\ variant = "async"
    /\ calls[c].kind = "execute"
    /\ calls[c].cancels > 0
    /\ calls[c].pc = "done"

\* C12: an asynchronous execute call that is cancelled at any of its awaits
\* (statement execution, commit, session close) ends with CancelledError and
\* with its Session closed.  A call cancelled again while the async with
\* awaits the close ends with the close still running as a shielded task,
\* which closes the Session and which nothing turns back to open; no Session
\* that its call has left is open.
C12_CancelledStillCloses ==
    /\ [](\A c \in Calls :
            CancelledAndLeft(c)
            => /\ calls[c].error = "CancelledError"
               /\ calls[c].returned = Unset
               /\ SessionOf(c).state \in {"closed", "closing"}
               /\ calls[c].cancels = 1 => SessionOf(c).state = "closed")
    /\ [](\A sid \in DOMAIN sessions : SessionLeft(sid) => sessions[sid].state # "open")
    /\ [][\A sid \in DOMAIN sessions :
            sessions[sid].state # "open" => sessions'[sid].state # "open"]_vars

\* The call was cancelled in await session.commit(), once: its Session is
\* closed when the CancelledError reaches the caller.
C12_Witness ==
    \E c \in Calls :
        /\ CancelledAndLeft(c)
        /\ calls[c].cancels = 1
        /\ calls[c].failed = [error |-> "CancelledError", at |-> "commit"]
        /\ calls[c].stmt = InsertBoth
        /\ SessionOf(c).state = "closed"

\* ---------------------------------------------------------------------- C19
\* What the Session of an execute call has logged before its close.
BeforeClose(events) ==
    IF events # <<>> /\ events[Len(events)] = "close"
    THEN SubSeq(events, 1, Len(events) - 1) ELSE events

\* The steps that went through before the line `at` failed.
StepsBefore(at) ==
    CASE at = "execute" -> <<>>
      [] at = "materialize" -> <<"execute">>
      [] at = "commit" -> <<"execute", "materialize">>
      [] OTHER -> <<>>

\* An execute call, not cancelled, in which a line of the body has failed.
FailedInBody(c) ==
    /\ calls[c].kind = "execute"
    /\ HasSession(c)
    /\ calls[c].cancels = 0
    /\ calls[c].failed.at \in {"execute", "materialize", "commit"}

\* C19: when statement execution, result materialization (any error other than
\* the "no result set" ResourceClosedError) or commit fails inside execute, the
\* caller gets that very error; the statement has run at most once, no step of
\* the body follows the failure, nothing is committed or published, no value
\* is returned, and the Session is closed when the call ends.
C19_ErrorsPropagate ==
    \A c \in Calls :
        /\ (calls[c].kind = "execute" /\ calls[c].raw.target = "lost")
           => /\ calls[c].failed.at = "materialize"
              /\ calls[c].failed.error = "DBAPIError"
        /\ FailedInBody(c)
           => /\ calls[c].error = calls[c].failed.error
              /\ calls[c].error \notin {"none", "ResourceClosedError"}
              /\ calls[c].pc \in {"finally", "exit", "done"}
              /\ BeforeClose(SessionOf(c).events) = StepsBefore(calls[c].failed.at)
              /\ SessionOf(c).commits = 0
              /\ db = calls[c].dbBefore
              /\ calls[c].returned = Unset
              /\ calls[c].pc = "done" => SessionOf(c).state = "closed"

\* A delete on the two rows whose commit failed: the driver's error has
\* reached the caller, the rows are still there, the Session is closed.
C19_Witness ==
    \E c \in Calls :
        /\ FailedInBody(c)
        /\ calls[c].pc = "done"
        /\ calls[c].stmt = DeleteAll
        /\ calls[c].failed = [error |-> "DBAPIError", at |-> "commit"]
        /\ calls[c].error = "DBAPIError"
        /\ SessionOf(c).events = <<"execute", "materialize", "close">>
        /\ db = <<Row1, Row2>>

\* ---------------------------------------------------------------------- C13
Seen(error, value, events, table) ==
    [error |-> error, value |-> value, events |-> events, db |-> table]

\* What a caller can see of one execute call made alone on the committed rows
\* `before`: the error or the value, the steps on the call's Session, and the
\* committed rows afterwards.  It is a function of the statement, the flags
\* and the rows, and of nothing else: the variant of the manager is no input.
ExecuteOutcome(stmt, commit, scalars, before) ==
    IF stmt.op = "insert" /\ InsertConflicts(stmt.rows, before)
    THEN Seen("IntegrityError", Unset, <<"close">>, before)
    ELSE LET after == ApplyWrite(order, stmt, before)
             raw == [target |-> stmt.target, rows |-> ResultRows(stmt, after),
                     returns_rows |-> TRUE]
         IN Seen("none",
                 IF ~ReturnsRows(stmt) THEN NoneResult
                 ELSE SeqResult(IF scalars THEN ScalarsAll(raw) ELSE RowsAll(raw)),
                 IF commit THEN ExecuteSteps ELSE <<"execute", "materialize", "close">>,
                 IF commit THEN after ELSE before)

\* C13: SyncManager and AsyncManager cannot be told apart by their callers.
\* For calls made one after another, whatever the variant, every execute call
\* ends with the error or value, the steps on its Session (made by the call,
\* then execute, materialize, commit, close) and the committed rows that
\* ExecuteOutcome gives for its statement, its flags and the rows it started
\* from, and every get_session block ends with its Session closed by the
\* manager's one logged step; so two managers of different variants given the
\* same calls from the same rows show the same sequence of all of these.
C13_VariantsAgree ==
    \A c \in Calls :
        /\ (calls[c].kind = "execute" /\ calls[c].pc = "done" /\ HasSession(c))
           => LET seen == ExecuteOutcome(calls[c].stmt, calls[c].commit,
                                         calls[c].scalars, calls[c].dbBefore)
              IN /\ calls[c].error = seen.error
                 /\ calls[c].returned = seen.value
                 /\ SessionOf(c).events = seen.events
                 /\ db = seen.db
                 /\ SessionOf(c).state = "closed"
        /\ (calls[c].kind = "block" /\ calls[c].pc = "done" /\ HasSession(c))
           => /\ SessionOf(c).events = <<"close">>
              /\ SessionOf(c).state = "closed"
        /\ (InFlight(c) /\ ~HasSession(c))
           => /\ calls[c].error = "RuntimeError"
              /\ calls[c].returned = Unset

\* An AsyncManager has answered the select of the two columns with
\* scalars=false and commit=true as ExecuteOutcome says: the two full rows,
\* after execute, materialize, commit, close.
C13_Witness ==
    \E c \in Calls :
        /\ variant = "async"
        /\ Returned(c)
        /\ calls[c].stmt = SelectCols
        /\ ~calls[c].scalars
        /\ calls[c].commit
        /\ calls[c].returned = SeqResult(<<Item("row", Row1), Item("row", Row2)>>)
        /\ SessionOf(c).events = ExecuteSteps

\* ---------------------------------------------------------------------- C14
\* The value of an argument the caller gave, or the documented default.
GivenOr(default, given) == IF given = <<>> THEN default ELSE given[1]

\* What execute(statement, commit=c, scalars=s) does for what the caller of
\* call c wrote, from the rows the call started on.
AskedOutcome(c) ==
    ExecuteOutcome(calls[c].asked.stmt, GivenOr(FALSE, calls[c].asked.commit),
                   GivenOr(TRUE, calls[c].asked.scalars), calls[c].dbBefore)

\* C14: manager(statement, commit=c, scalars=s) is execute(statement,
\* commit=c, scalars=s) and nothing more, in both variants, for every
\* statement and every c and s given or left out: it runs as one execute call
\* on that statement with those flags, and it ends with the error or value,
\* the steps on its Session and the committed rows that execute gives.
C14_CallIsExecute ==
    \A c \in Calls :
        (calls[c].via = "call" /\ InFlight(c))
        => /\ calls[c].kind = "execute"
           /\ calls[c].stmt = calls[c].asked.stmt
           /\ calls[c].commit = GivenOr(FALSE, calls[c].asked.commit)
           /\ calls[c].scalars = GivenOr(TRUE, calls[c].asked.scalars)
           /\ HasSession(c)
           /\ calls[c].pc = "done"
              => /\ calls[c].error = AskedOutcome(c).error
                 /\ calls[c].returned = AskedOutcome(c).value
                 /\ SessionOf(c).events = AskedOutcome(c).events
                 /\ db = AskedOutcome(c).db

\* await manager(select(User.id, User.name), commit=True, scalars=False) on an
\* AsyncManager has returned the two full rows after the four steps of execute.
C14_Witness ==
    \E c \in Calls :
        /\ variant = "async"
        /\ calls[c].via = "call"
        /\ calls[c].pc = "done"
        /\ calls[c].asked = Asked(SelectCols, <<TRUE>>, <<FALSE>>, <<>>)
        /\ calls[c].returned = SeqResult(<<Item("row", Row1), Item("row", Row2)>>)
        /\ SessionOf(c).events = ExecuteSteps

\* ---------------------------------------------------------------------- C16
\* The columns of a result row: the entity, both columns, or the id alone.
Project(target, row) ==
    CASE target = "entity" -> <<row>>
      [] target = "cols" -> row
      [] OTHER -> <<row[1]>>

\* The first column of a result row as scalars() gives it.
FirstOf(target, row) ==
    IF target = "entity" THEN Item("entity", row)
    ELSE Item("scalar", <<Project(target, row)[1]>>)

\* C16: for a statement with a readable result set, execute with scalars=true
\* returns the first column (or the one entity) of every result row, and with
\* scalars=false the full rows; either way one item per result row, in the
\* order of the rows; and scalars left out is scalars=true.
C16_ScalarsOrRows ==
    \A c \in Calls :
        (Returned(c) /\ ReturnsRows(calls[c].stmt))
        => LET rows == calls[c].raw.rows
               target == calls[c].stmt.target
               got == calls[c].returned
               scalars == GivenOr(TRUE, calls[c].asked.scalars)
           IN /\ got.tag = "Seq"
              /\ Len(got.items) = Len(rows)
              /\ \A i \in 1..Len(rows) :
                    got.items[i] = IF scalars THEN FirstOf(target, rows[i])
                                   ELSE Item("row", Project(target, rows[i]))

\* execute(select(User.id, User.name)) with scalars left out has returned the
\* ids of the two rows, in the order of the rows.
C16_Witness ==
    \E c \in Calls :
        /\ Returned(c)
        /\ calls[c].via = "execute"
        /\ calls[c].asked = Asked(SelectCols, <<>>, <<>>, <<>>)
        /\ calls[c].raw.rows = <<Row1, Row2>>
        /\ calls[c].returned = SeqResult(<<Item("scalar", <<1>>), Item("scalar", <<2>>)>>)

\* ---------------------------------------------------------------------- C17
\* C17: a non-returning insert executed through AsyncManager.execute with
\* ignore_closed_res=False ends with ResourceClosedError raised to the caller.
C17_RaisesResourceClosedError ==
    \A c \in Calls :
        (/\ variant = "async"
         /\ calls[c].kind = "execute"
         /\ calls[c].pc = "done"
         /\ calls[c].asked.stmt = InsertTempo
         /\ calls[c].asked.extra = <<IgnoreClosedRes>>)
        => calls[c].error = "ResourceClosedError"

\* ---------------------------------------------------------------------- C15
\* How often the database holds table t.
Count(tables, t) == Cardinality({i \in DOMAIN tables : tables[i] = t})

\* create_all with checkfirst left at its default of true.
Materialized(run) == run.ran /\ run.checkfirst

\* C15: create_all with checkfirst true (the default) never raises and
\* leaves every table it was to materialize in the database exactly once,
\* whatever the database held before; run again in a row on the same tables it
\* still does not raise, creates nothing, and leaves the tables and their
\* rows as they were.
C15_CreateAllIdempotent ==
    /\ [](Materialized(ddl)
          => /\ ddl.error = "none"
             /\ catalog = ddl.before \o ddl.created
             /\ \A i \in DOMAIN ddl.wanted : Count(catalog, ddl.wanted[i]) = 1
             /\ (\A i \in DOMAIN ddl.wanted : Has(ddl.before, ddl.wanted[i]))
                => catalog = ddl.before)
    /\ [][(Materialized(ddl) /\ Materialized(ddl') /\ ddl' # ddl
           /\ ddl'.wanted = ddl.wanted)
          => /\ ddl'.error = "none"
             /\ ddl'.created = <<>>
             /\ catalog' = catalog
             /\ db' = db]_vars
    /\ [][ddl' # ddl => db' = db]_vars

\* create_all() has run a second time in a row on the two registered tables,
\* of which it had created post the first time: nothing raised, nothing
\* created, both tables there once.
C15_Witness ==
    /\ ddl = Ddl(<<>>, TRUE, <<PostTable, UserTable>>, "none", <<>>,
                 <<UserTable, PostTable>>)
    /\ catalog = <<UserTable, PostTable>>
    /\ Len(metadata) = 2

\* ---------------------------------------------------------------------- C18
\* The keys of the claim: one model class, or columns in order.
IsEntityKey(key) == ~key.seq /\ key.name \in Classes

IsColumnsKey(key) ==
    /\ key.seq
    /\ key.items # <<>>
    /\ \A i \in DOMAIN key.items : key.items[i] \in {Obj(col) : col \in Columns}

\* C18: the statement manager[key] builds is the statement built directly
\* from the entities of the key in their order, and stays so under chained
\* where and returning; for manager[E] all four statements exist and are on
\* E, and for manager[c1, ..., ck] the select exists and reads c1, ..., ck in
\* that order.
C18_SelectorBuildsTheSame ==
    built.made
    => /\ built.selector = built.direct
       /\ built.selector = Chained(SqlBuild(built.op, EntitiesOf(built.key)), built.chain)
       /\ (built.chain = <<>>
           /\ \/ IsEntityKey(built.key)
              \/ IsColumnsKey(built.key) /\ built.op = "select")
          => /\ built.selector.error = "none"
             /\ built.selector.op = built.op
             /\ built.selector.entities = Names(EntitiesOf(built.key))
             /\ built.selector.where = <<>>
             /\ built.selector.returning = <<>>

\* manager[User.name, User.id].select.where(User.id == 1) is the select of
\* name, then id, with that criterion.
C18_Witness ==
    /\ built.made
    /\ built.key = Tuple(<<Obj("User.name"), Obj("User.id")>>)
    /\ built.chain = <<"where">>
    /\ built.selector = Statement("select", <<"User.name", "User.id">>, <<IdIs1>>, <<>>)
    /\ built.direct = built.selector

\* ---------------------------------------------------------------------- C20
\* C20: once the manager is constructed, no step of get_session or execute,
\* whether the call succeeds or fails, changes the path, the engine or the
\* session maker: they are what the constructor made them, and the session
\* maker stays bound to the engine; the statement of a call lives in the call
\* and its Session only, so nothing of it stays in the manager.
C20_CallsLeaveManagerAlone ==
    /\ [][constructed = "ok"
          => /\ path' = path
             /\ engine' = engine
             /\ session_maker' = session_maker
             /\ constructed' = constructed]_vars
    /\ [](constructed = "ok"
          => /\ engine = EngineFabric(variant, path).value
             /\ session_maker.set
             /\ session_maker.bind = engine)

\* An execute has failed after an earlier execute committed its write and
\* returned; the manager still holds the engine and the session maker of its
\* construction.
C20_Witness ==
    \E c \in Calls :
        /\ constructed = "ok"
        /\ last.valid
        /\ calls[c].kind = "execute"
        /\ calls[c].pc = "done"
        /\ calls[c].error # "none"
        /\ engine = EngineFabric(variant, path).value
        /\ session_maker.bind = engine

\* ---------------------------------------------------------------------- C21
\* How often the Session of call c was committed, as its log tells it.
CommitEvents(c) ==
    Cardinality({i \in DOMAIN SessionOf(c).events : SessionOf(c).events[i] = "commit"})

\* Call c is an execute with commit=true whose statement ran without error.
CommittingExecute(c) ==
    /\ HasSession(c)
    /\ calls[c].kind = "execute"
    /\ calls[c].commit
    /\ StatementRan(SessionOf(c).events)

\* C21: an execute with commit=true whose statement ran without error has
\* not committed before its commit line and has committed its Session
\* exactly once after it, whether the result was materialized to a sequence
\* or normalized to None; so the call ends without error and a write, also
\* one that returns no rows, is in the committed rows when the call is done.
C21_NoneResultStillCommits ==
    \A c \in Calls :
        CommittingExecute(c)
        => /\ calls[c].pc \in {"materialize", "commit"}
              => SessionOf(c).commits = 0 /\ CommitEvents(c) = 0
           /\ calls[c].pc \in {"finally", "exit", "done"}
              => /\ calls[c].error = "none"
                 /\ calls[c].result.tag \in {"Seq", "None"}
                 /\ SessionOf(c).commits = 1
                 /\ CommitEvents(c) = 1
                 /\ IsPrefix(<<"execute", "materialize", "commit">>, SessionOf(c).events)
                 /\ IsWrite(calls[c].stmt)
                    => db = ApplyWrite(order, calls[c].stmt, calls[c].dbBefore)

\* execute(delete(User), commit=True) on the two rows is done: its result was
\* normalized to None, its Session committed once, and the table is empty.
C21_Witness ==
    \E c \in Calls :
        /\ calls[c].pc = "done"
        /\ calls[c].stmt = DeleteAll
        /\ calls[c].commit
        /\ calls[c].returned = NoneResult
        /\ calls[c].dbBefore = <<Row1, Row2>>
        /\ SessionOf(c).commits = 1
        /\ SessionOf(c).events = ExecuteSteps
        /\ db = EmptyTable

\* ---------------------------------------------------------------------- C22
OpenSessions == {sid \in DOMAIN sessions : sessions[sid].state = "open"}

CallsInFlight == {c \in Calls : InFlight(c)}

\* The caller of get_session is still inside its block on Session sid.
InCallersBlock(sid) == \E c \in Calls : calls[c].session = sid /\ calls[c].pc = "block"

Created(sid) == sid \in DOMAIN sessions

Closed(sid) == Created(sid) /\ sessions[sid].state = "closed"

\* C22: at every moment there are no more open Sessions than calls of
\* get_session and execute in flight, every open Session is the Session of a
\* call in flight, and with no call in flight no Session is open; and every
\* Session that was created is closed in the end, once its caller is out of
\* the get_session() block.
C22_OpenSessionsBounded ==
    /\ [](Cardinality(OpenSessions) <= Cardinality(CallsInFlight))
    /\ [](\A sid \in OpenSessions : \E c \in CallsInFlight : calls[c].session = sid)
    /\ [](CallsInFlight = {} => OpenSessions = {})
    /\ \A sid \in 1..MaxSessions :
          (Created(sid) /\ ~InCallersBlock(sid)) ~> Closed(sid)

\* Two calls are in flight on an AsyncManager, each on its own open Session,
\* after an earlier call whose Session is closed.
C22_Witness ==
    /\ variant = "async"
    /\ Len(sessions) = 3
    /\ sessions[1].state = "closed"
    /\ OpenSessions = {2, 3}
    /\ CallsInFlight = {1, 2}
    /\ calls[1].session # calls[2].session
====
